---- MODULE Spec2Model ----
(***************************************************************************)
(* Telemetry-to-decision pipeline of the biofilm risk dashboard.           *)
(*                                                                         *)
(* Two builds of the dashboard are in the repository and both are modelled:*)
(*   "dashboard-app" : src/dashboard-app/src/App.jsx (state set by updateUI)*)
(*   "part_001"      : src/unnamed/part_001 (values derived on each render) *)
(*                                                                         *)
(* Every JavaScript number is held in thousandths (7.2 is 7200, a risk of  *)
(* 60 is 60000, 1000 litres is 1000000).  A JavaScript value is a record   *)
(* [k, n]: k is its kind and n its magnitude in thousandths (0 when the    *)
(* kind carries no number).                                                *)
(***************************************************************************)
EXTENDS Integers, Sequences, FiniteSets, TLC

VARIABLES
    variant,        \* which build runs in this browser profile
    now,            \* Date.now(), milliseconds
    permission,     \* Notification.permission
    localStorage,   \* the keys the dashboard persists
    notifications,  \* the Notification objects created so far
    feeds,          \* useState feeds
    data,           \* part_001: useState data (latest reading or null)
    connectionStatus, \* part_001: useState connectionStatus
    waterVolume,    \* useState waterVolume
    offsets,        \* useState offsets
    closureOffsets, \* dashboard-app: offsets seen by the fetchData closure
    lastValidData,  \* dashboard-app: useRef lastValidData
    ui,             \* dashboard-app: the useState values set by updateUI
    lastOp,         \* what the last step did (observation only)
    probe,          \* inputs and result of the last direct function call
    channel,        \* ThingSpeak: the number of entries the channel holds
    inflight,       \* the fetches that have been sent and not yet answered
    mounted,        \* the component is mounted (its poll timer is set)
    lastMaintenance, \* useState lastMaintenance
    fw              \* firmware: globals, position in loop(), interrupt state

vars == <<variant, now, permission, localStorage, notifications, feeds, data,
          connectionStatus, waterVolume, offsets, closureOffsets,
          lastValidData, ui, lastOp, probe, channel, inflight, mounted,
          lastMaintenance, fw>>

----------------------------------------------------------------------------
(* JavaScript values *)

Num(n) == [k |-> "num", n |-> n]

NaN == [k |-> "nan", n |-> 0]

Null == [k |-> "null", n |-> 0]

\* a string holding the decimal text of n/1000, e.g. "7.2"
Str(n) == [k |-> "numstr", n |-> n]

EmptyStr == [k |-> "emptystr", n |-> 0]

\* a non-empty string that is not a number, e.g. "Active" or "NaN"
Junk == [k |-> "junkstr", n |-> 0]

\* the placeholder string '--'
Dash == [k |-> "dash", n |-> 0]

\* the placeholder string '--%'
DashPct == [k |-> "pctdash", n |-> 0]

\* v + '%' for a number v: "75%", or "NaN%"
Percent(v) == IF v.k = "num" THEN [k |-> "pct", n |-> v.n] ELSE [k |-> "pctnan", n |-> 0]

isNum(v) == v.k = "num"

isNaN(v) == ~isNum(v)

\* Number(v)
Number(v) ==
    CASE v.k = "num" -> v
      [] v.k = "numstr" -> Num(v.n)
      [] v.k = "null" -> Num(0)
      [] v.k = "emptystr" -> Num(0)
      [] OTHER -> NaN

\* parseFloat(v): the argument is converted to a string first
parseFloat(v) ==
    CASE v.k = "num" -> v
      [] v.k = "numstr" -> Num(v.n)
      [] v.k = "pct" -> Num(v.n)
      [] OTHER -> NaN

\* ToBoolean(v)
Truthy(v) ==
    CASE v.k = "null" -> FALSE
      [] v.k = "emptystr" -> FALSE
      [] v.k = "nan" -> FALSE
      [] v.k = "num" -> v.n # 0
      [] OTHER -> TRUE

\* a + b on numbers
Add(a, b) == IF isNum(a) /\ isNum(b) THEN Num(a.n + b.n) ELSE NaN

\* a - b on numbers
Sub(a, b) == IF isNum(a) /\ isNum(b) THEN Num(a.n - b.n) ELSE NaN

\* a < b with both operands converted to numbers; false when either is NaN
Lt(a, b) ==
    LET x == Number(a)
        y == Number(b)
    IN  isNum(x) /\ isNum(y) /\ x.n < y.n

Gt(a, b) == Lt(b, a)

Le(a, b) ==
    LET x == Number(a)
        y == Number(b)
    IN  isNum(x) /\ isNum(y) /\ x.n <= y.n

Ge(a, b) == Le(b, a)

\* a || b
OrElse(a, b) == IF Truthy(a) THEN a ELSE b

Abs(n) == IF n < 0 THEN -n ELSE n

\* n rounded to a multiple of unit, ties away from zero
RoundTo(n, unit) ==
    LET q == (Abs(n) + unit \div 2) \div unit
    IN  IF n < 0 THEN -(q * unit) ELSE q * unit

\* the unit (in thousandths) of the last digit kept by toFixed(digits)
FixedUnit(digits) ==
    CASE digits = 0 -> 1000
      [] digits = 1 -> 100
      [] digits = 2 -> 10
      [] OTHER -> 1

\* v.toFixed(digits): a decimal string, or "NaN"
toFixed(v, digits) ==
    IF isNum(v) THEN Str(RoundTo(v.n, FixedUnit(digits))) ELSE Junk

----------------------------------------------------------------------------
(* Pure functions *)

\* predictBiofilmRisk with the stagnation test written flow <= 10
predictBiofilmRisk_flowLe(temp, ph, turbidity, flow, tds) ==
    LET tempTerm == IF Gt(temp, Num(20000)) /\ Lt(temp, Num(35000)) THEN 20000
                    ELSE IF Gt(temp, Num(35000)) THEN 10000 ELSE 0
        phTerm == IF Gt(ph, Num(6500)) /\ Lt(ph, Num(8000)) THEN 20000 ELSE 0
        turbTerm == IF Gt(turbidity, Num(5000)) THEN 25000 ELSE 0
        flowTerm == IF Le(flow, Num(10000)) THEN 25000 ELSE 0
        tdsTerm == IF Gt(tds, Num(500000)) THEN 10000 ELSE 0
        score == 10000 + tempTerm + phTerm + turbTerm + flowTerm + tdsTerm
    IN  Num(IF score < 100000 THEN score ELSE 100000)

\* part_001: predictBiofilmRisk(temp, ph, turbidity, flow, tds)
predictBiofilmRisk(temp, ph, turbidity, flow, tds) ==
    LET tempTerm == IF Gt(temp, Num(20000)) /\ Lt(temp, Num(35000)) THEN 20000
                    ELSE IF Gt(temp, Num(35000)) THEN 10000 ELSE 0
        phTerm == IF Gt(ph, Num(6500)) /\ Lt(ph, Num(8000)) THEN 20000 ELSE 0
        turbTerm == IF Gt(turbidity, Num(5000)) THEN 25000 ELSE 0
        flowTerm == IF Lt(flow, Num(10000)) THEN 25000 ELSE 0
        tdsTerm == IF Gt(tds, Num(500000)) THEN 10000 ELSE 0
        score == 10000 + tempTerm + phTerm + turbTerm + flowTerm + tdsTerm
    IN  Num(IF score < 100000 THEN score ELSE 100000)

\* part_001: dssLogic(risk, ph, turbidity)
dssLogic(risk, ph, turbidity) ==
    IF Gt(risk, Num(80000)) THEN "Critical: Immediate chemical shock required."
    ELSE IF Gt(risk, Num(60000)) THEN "Warning: Increase flow rate and monitor."
    ELSE IF Lt(ph, Num(6500)) \/ Gt(ph, Num(8500)) THEN "Action: Adjust pH levels."
    ELSE IF Gt(turbidity, Num(10000)) THEN "Action: Check filtration system."
    ELSE "Normal Operation"

\* part_001: getBiofilmStage(risk).stage
getBiofilmStage(risk) ==
    IF Lt(risk, Num(30000)) THEN "Initial Attachment"
    ELSE IF Lt(risk, Num(60000)) THEN "Irreversible Attachment"
    ELSE IF Lt(risk, Num(85000)) THEN "Maturation I"
    ELSE "Maturation II / Dispersion"

\* the factors of runDSS, in the order the code tests them
dssFactors(d) ==
    (IF Gt(d.field5, Num(5000)) THEN <<"Turbidity high">> ELSE <<>>) \o
    (IF Lt(d.field4, Num(60000)) THEN <<"Flow low">> ELSE <<>>) \o
    (IF Gt(d.field6, Num(500000)) THEN <<"TDS high">> ELSE <<>>) \o
    (IF Gt(d.field2, Num(30000)) THEN <<"Temperature high">> ELSE <<>>)

\* runDSS with the second rule written risk < 60 && score === 2
runDSS_and(d) ==
    LET risk == Number(d.field7)
        factors == dssFactors(d)
        score == Len(factors)
    IN  IF Lt(risk, Num(30000)) /\ score <= 1
        THEN [decision |-> "Normal Operation",
              action |-> "No maintenance required",
              urgency |-> "Low", review |-> "After 24 hours",
              factors |-> factors]
        ELSE IF Lt(risk, Num(60000)) /\ score = 2
        THEN [decision |-> "Preventive Maintenance",
              action |-> "Schedule inspection & partial cleaning",
              urgency |-> "Medium", review |-> "Within 12 hours",
              factors |-> factors]
        ELSE [decision |-> "Corrective Action Required",
              action |-> "Immediate cleaning & backwash",
              urgency |-> "High", review |-> "Within 1 hour",
              factors |-> factors]

\* dashboard-app: runDSS(d)
runDSS(d) ==
    LET risk == Number(d.field7)
        factors == dssFactors(d)
        score == Len(factors)
    IN  IF Lt(risk, Num(30000)) /\ score <= 1
        THEN [decision |-> "Normal Operation",
              action |-> "No maintenance required",
              urgency |-> "Low", review |-> "After 24 hours",
              factors |-> factors]
        ELSE IF Lt(risk, Num(60000)) \/ score = 2
        THEN [decision |-> "Preventive Maintenance",
              action |-> "Schedule inspection & partial cleaning",
              urgency |-> "Medium", review |-> "Within 12 hours",
              factors |-> factors]
        ELSE [decision |-> "Corrective Action Required",
              action |-> "Immediate cleaning & backwash",
              urgency |-> "High", review |-> "Within 1 hour",
              factors |-> factors]

CHEMICALS ==
    [chlorine |-> [name |-> "Sodium Hypochlorite (12.5%)", unit |-> "ml", rate |-> 50],
     phPlus |-> [name |-> "pH Plus (Sodium Carbonate)", unit |-> "g", rate |-> 50],
     phMinus |-> [name |-> "pH Minus (Sodium Bisulfate)", unit |-> "g", rate |-> 50]]

\* The volumes (whole litres up to 2000, in thousandths) at which the IEEE-754
\* double (vol / 1000) * 50 lies one ulp above the exact product:
\* (140 / 1000) * 50 is 7.000000000000001.
RoundsAbove == {140000, 280000, 560000, 1100000, 1120000}

\* (vol / 1000) * rate as a double: num / 10^6 is the exact product, and
\* above says that the double lies just above it
doseProduct(vol, rate) == [num |-> vol.n * rate, above |-> vol.n \in RoundsAbove]

\* Math.ceil of a dose product, in thousandths
MathCeil(x) ==
    Num(1000 * ((x.num + (IF x.above THEN 1 ELSE 0) + 999999) \div 1000000))

\* one entry of the treatment list: { ...chemical, amount, reason }
Treatment(chem, vol, reason) ==
    [name |-> chem.name, unit |-> chem.unit,
     amount |-> MathCeil(doseProduct(vol, chem.rate)), reason |-> reason]

\* calculateTreatments with the disinfection test written risk > 60
calculateTreatments_gt(vol, risk, dss, phv) ==
    (IF Gt(risk, Num(60000)) \/ dss # "Normal Operation"
     THEN <<Treatment(CHEMICALS.chlorine, vol, "Biofilm risk / Preventive maintenance")>>
     ELSE <<>>) \o
    (IF phv # Dash
     THEN IF Lt(Number(phv), Num(6500))
          THEN <<Treatment(CHEMICALS.phPlus, vol, "Low pH (< 6.5)")>>
          ELSE IF Gt(Number(phv), Num(8500))
          THEN <<Treatment(CHEMICALS.phMinus, vol, "High pH (> 8.5)")>>
          ELSE <<>>
     ELSE <<>>)

\* calculateTreatments(vol, risk, dss, ph); the code is the same in both builds
calculateTreatments(vol, risk, dss, phv) ==
    (IF Ge(risk, Num(60000)) \/ dss # "Normal Operation"
     THEN <<Treatment(CHEMICALS.chlorine, vol, "Biofilm risk / Preventive maintenance")>>
     ELSE <<>>) \o
    (IF phv # Dash
     THEN IF Lt(Number(phv), Num(6500))
          THEN <<Treatment(CHEMICALS.phPlus, vol, "Low pH (< 6.5)")>>
          ELSE IF Gt(Number(phv), Num(8500))
          THEN <<Treatment(CHEMICALS.phMinus, vol, "High pH (> 8.5)")>>
          ELSE <<>>
     ELSE <<>>)

----------------------------------------------------------------------------
(* Readings and the state derived from them *)

FieldNames == {"field1", "field2", "field3", "field4", "field5", "field6",
               "field7", "field8"}

\* data === null, lastValidData.current === null
NoReading ==
    [created_at |-> -1, field1 |-> Null, field2 |-> Null, field3 |-> Null,
     field4 |-> Null, field5 |-> Null, field6 |-> Null, field7 |-> Null,
     field8 |-> Null]

\* part_001: getVal(field, offsetKey) in a render whose state holds data d and
\* offsets off; offsetKey "" stands for null
getVal(d, off, field, offsetKey) ==
    IF d = NoReading \/ ~Truthy(d[field]) THEN Dash
    ELSE LET parsed == parseFloat(d[field])
             val == IF offsetKey # ""
                    THEN Add(parsed, OrElse(off[offsetKey], Num(0)))
                    ELSE parsed
         IN  IF isNaN(val) THEN Dash ELSE toFixed(val, 1)

ph == getVal(data, offsets, "field1", "ph")

temp == getVal(data, offsets, "field2", "temp")

humidity == getVal(data, offsets, "field3", "")

flow == getVal(data, offsets, "field4", "")

turb == getVal(data, offsets, "field5", "")

tds == getVal(data, offsets, "field6", "tds")

\* part_001: rawRisk; Null stands for null
rawRiskOf(d) ==
    IF d # NoReading /\ Truthy(d.field7) THEN Number(d.field7) ELSE Null

\* part_001: riskScore in a render whose state holds data d and offsets off
riskScoreOf(d, off) ==
    LET vPh == getVal(d, off, "field1", "ph")
        vTemp == getVal(d, off, "field2", "temp")
        vFlow == getVal(d, off, "field4", "")
        vTurb == getVal(d, off, "field5", "")
        vTds == getVal(d, off, "field6", "tds")
    IN  IF rawRiskOf(d) # Null THEN rawRiskOf(d)
        ELSE IF vPh # Dash /\ vTemp # Dash /\ vTurb # Dash /\ vFlow # Dash
                /\ vTds # Dash
        THEN predictBiofilmRisk(Number(vTemp), Number(vPh), Number(vTurb),
                                Number(vFlow), Number(vTds))
        ELSE Num(0)

rawRisk == rawRiskOf(data)

riskScore == riskScoreOf(data, offsets)

\* part_001: riskPercent
riskPercent ==
    IF ph # Dash THEN Percent(Number(toFixed(Number(riskScore), 1))) ELSE DashPct

\* part_001: biofilmStage.stage
biofilmStage == getBiofilmStage(riskScore)

\* part_001: contributingFactors
contributingFactors ==
    IF data # NoReading
    THEN (IF Gt(Number(temp), Num(30000)) THEN <<"High Temp">> ELSE <<>>) \o
         (IF Lt(Number(flow), Num(10000)) THEN <<"Low Flow">> ELSE <<>>) \o
         (IF Gt(Number(turb), Num(5000)) THEN <<"High Turbidity">> ELSE <<>>) \o
         (IF Lt(Number(ph), Num(6500)) \/ Gt(Number(ph), Num(8500))
          THEN <<"Unstable pH">> ELSE <<>>)
    ELSE <<>>

\* part_001: the heuristic score getTrend computes for one history entry
trendScore(f, off) ==
    predictBiofilmRisk(Add(Number(f.field2), off.temp), Add(Number(f.field1), off.ph),
                       Number(f.field5), Number(f.field4),
                       Add(Number(f.field6), off.tds))

\* part_001: getTrend() in a render whose state holds feeds fs and offsets off
getTrend(fs, off) ==
    IF Len(fs) < 2 THEN [dir |-> "null", diff |-> Null]
    ELSE LET curr == trendScore(fs[Len(fs)], off)
             prev == trendScore(fs[Len(fs) - 1], off)
             diff == Sub(curr, prev)
         IN  IF isNum(diff) /\ Abs(diff.n) < 2000
             THEN [dir |-> "stable", diff |-> Num(0)]
             ELSE [dir |-> IF Gt(diff, Num(0)) THEN "up" ELSE "down",
                   diff |-> IF isNum(diff) THEN Num(Abs(diff.n)) ELSE NaN]

\* part_001: trend
trend == getTrend(feeds, offsets)

\* part_001: dssDecision
dssDecision ==
    IF ph # Dash THEN dssLogic(riskScore, Number(ph), Number(turb))
    ELSE "Waiting for data..."

\* part_001: treatments
treatments ==
    IF ph # Dash THEN calculateTreatments(waterVolume, riskScore, dssDecision, ph)
    ELSE <<>>

\* dashboard-app: riskVal of the treatments memo and of the alert effect
riskValOf(pct) == IF pct = DashPct THEN Num(0) ELSE parseFloat(pct)

\* dashboard-app: treatments (useMemo)
treatmentsDash ==
    calculateTreatments(waterVolume, riskValOf(ui.riskPercent), ui.dssDecision, ui.ph)

----------------------------------------------------------------------------
(* dashboard-app: updateUI *)

NoTrend == [dir |-> "null", diff |-> Null]

InitUI ==
    [hasData |-> FALSE, riskPercent |-> DashPct, ph |-> Dash, temp |-> Dash,
     tds |-> Dash,
     paramStatus |-> [ph |-> "unset", temp |-> "unset", flow |-> "unset",
                      turb |-> "unset", tds |-> "unset"],
     stage |-> "--", dssDecision |-> "--", dssAction |-> "--",
     dssUrgency |-> "--", dssReview |-> "--", contributingFactors |-> <<>>,
     trend |-> NoTrend, systemStatus |-> "CHECKING"]

\* dashboard-app: getSystemStatus(createdAt).text, evaluated at time t
getSystemStatus(createdAt, t) ==
    LET diffMs == t - createdAt
    IN  IF diffMs < 60000 THEN "SYSTEM ACTIVE"
        ELSE IF diffMs < 300000 THEN "DATA STALE"
        ELSE "SYSTEM OFFLINE"

\* dashboard-app: the trend set by updateUI
trendOf(risk, previous) ==
    IF previous # NoReading
    THEN LET delta == Sub(risk, Number(previous.field7))
         IN  IF Gt(delta, Num(0)) THEN [dir |-> "up", diff |-> toFixed(delta, 1)]
             ELSE IF Lt(delta, Num(0))
             THEN [dir |-> "down", diff |-> toFixed(Sub(Num(0), delta), 1)]
             ELSE [dir |-> "stable", diff |-> Null]
    ELSE NoTrend

\* dashboard-app: the paramStatus set by updateUI
paramStatusOf(d, off) ==
    LET vPh == Add(Number(d.field1), off.ph)
        vTemp == Add(Number(d.field2), off.temp)
        vFlow == Number(d.field4)
        vTurb == Number(d.field5)
        vTds == Add(Number(d.field6), off.tds)
    IN  [ph |-> IF Ge(vPh, Num(6500)) /\ Le(vPh, Num(8500)) THEN "normal" ELSE "caution",
         temp |-> IF Gt(vTemp, Num(30000)) THEN "caution" ELSE "normal",
         flow |-> IF Lt(vFlow, Num(60000)) THEN "caution" ELSE "normal",
         turb |-> IF Gt(vTurb, Num(5000)) THEN "caution" ELSE "normal",
         tds |-> IF Gt(vTds, Num(500000)) THEN "caution" ELSE "normal"]

\* dashboard-app: the stage set by updateUI
stageOf(risk) ==
    IF Lt(risk, Num(30000)) THEN "Early Growth"
    ELSE IF Lt(risk, Num(60000)) THEN "Developing Biofilm"
    ELSE "Critical Biofilm"

\* dashboard-app: updateUI(d, previous), with the offsets of its closure;
\* status is what updateSystemStatus has just set
updateUI(d, previous, off, status) ==
    LET risk == Number(d.field7)
        dss == runDSS(d)
    IN  [hasData |-> TRUE,
         riskPercent |-> Percent(risk),
         ph |-> toFixed(Add(Number(d.field1), off.ph), 2),
         temp |-> toFixed(Add(Number(d.field2), off.temp), 1),
         tds |-> toFixed(Add(Number(d.field6), off.tds), 0),
         paramStatus |-> paramStatusOf(d, off),
         stage |-> stageOf(risk),
         dssDecision |-> dss.decision, dssAction |-> dss.action,
         dssUrgency |-> dss.urgency, dssReview |-> dss.review,
         contributingFactors |-> dss.factors,
         trend |-> trendOf(risk, previous),
         systemStatus |-> status]

----------------------------------------------------------------------------
(* Effects run after a render *)

\* the alert condition without the cooldown test
AlertFires_noCooldown(riskVal, perm, lastAlert, t) ==
    /\ Gt(riskVal, Num(80000))
    /\ perm = "granted"

\* the condition under which the alert effect creates a Notification
AlertFires(riskVal, perm, lastAlert, t) ==
    /\ Gt(riskVal, Num(80000))
    /\ perm = "granted"
    /\ \/ ~Truthy(lastAlert)
       \/ isNum(Number(lastAlert)) /\ t - Number(lastAlert).n > 3600000

\* String(v) as localStorage.setItem stores a number
String(v) == IF isNum(v) THEN Str(v.n) ELSE Junk

\* new Date(t).toISOString(): the timestamp of the instant t
toISOString(t) == [k |-> "iso", n |-> t]

\* the text "null"
NullText == [k |-> "nulltext", n |-> 0]

\* localStorage.setItem(key, v) on null or a text: the value is converted to
\* a string, null becomes the text "null"
setItem(v) == IF v = Null THEN NullText ELSE v

\* JSON.parse(JSON.stringify(v)) of a number: NaN is written as null
JsonNumber(v) == IF isNum(v) THEN v ELSE Null

\* Effects with the timestamp stored whenever the alert effect sees a risk
\* above 80, fired or not
Effects_stampAlways(depChanged, riskVal, opname) ==
    LET fires == depChanged /\ AlertFires(riskVal, permission,
                                          localStorage.lastAlertTimestamp, now)
    IN  /\ notifications' = IF fires
                            THEN Append(notifications, [t |-> now, risk |-> riskVal])
                            ELSE notifications
        /\ localStorage' =
              [lastMaintenance |-> setItem(lastMaintenance'),
               waterVolume |-> String(waterVolume'),
               calibOffsets |-> [ph |-> JsonNumber(offsets'.ph),
                                 temp |-> JsonNumber(offsets'.temp),
                                 tds |-> JsonNumber(offsets'.tds)],
               lastAlertTimestamp |-> IF depChanged /\ Gt(riskVal, Num(80000))
                                      THEN Str(now)
                                      ELSE localStorage.lastAlertTimestamp]
        /\ lastOp' = [op |-> opname, ran |-> depChanged, fired |-> fires]

\* The effects that follow a state update: the three persistence effects and
\* the alert effect, which runs only when its dependency (riskScore in
\* part_001, riskPercent in dashboard-app) has changed.
Effects(depChanged, riskVal, opname) ==
    LET fires == depChanged /\ AlertFires(riskVal, permission,
                                          localStorage.lastAlertTimestamp, now)
    IN  /\ notifications' = IF fires
                            THEN Append(notifications, [t |-> now, risk |-> riskVal])
                            ELSE notifications
        /\ localStorage' =
              [lastMaintenance |-> setItem(lastMaintenance'),
               waterVolume |-> String(waterVolume'),
               calibOffsets |-> [ph |-> JsonNumber(offsets'.ph),
                                 temp |-> JsonNumber(offsets'.temp),
                                 tds |-> JsonNumber(offsets'.tds)],
               lastAlertTimestamp |-> IF fires THEN Str(now)
                                      ELSE localStorage.lastAlertTimestamp]
        /\ lastOp' = [op |-> opname, ran |-> depChanged, fired |-> fires]

NoProbe == [fn |-> "none"]

\* firmware: the globals as the program image initialises them, before
\* setup(); handled, published, periodPushes and closed observe the run
Reset ==
    [pc |-> "setup", millis |-> 0, ints |-> TRUE, pending |-> FALSE,
     flowPulses |-> 0, flowRate |-> 0, lastFlowMillis |-> 0,
     handled |-> 0, published |-> 0, periodPushes |-> 0, closed |-> <<>>]

DefaultOffsets == [ph |-> Num(0), temp |-> Num(0), tds |-> Num(0)]

\* A fresh browser profile, after the first render and its effects.
Init ==
    /\ variant \in {"dashboard-app", "part_001"}
    /\ now = 0
    /\ permission = "default"
    /\ waterVolume = Num(1000000)
    /\ offsets = DefaultOffsets
    /\ closureOffsets = DefaultOffsets
    /\ lastMaintenance = Null
    /\ fw = Reset
    /\ localStorage = [lastMaintenance |-> NullText,
                       waterVolume |-> Str(1000000), calibOffsets |-> DefaultOffsets,
                       lastAlertTimestamp |-> Null]
    /\ notifications = <<>>
    /\ feeds = <<>>
    /\ data = NoReading
    /\ connectionStatus = "connecting"
    /\ lastValidData = NoReading
    /\ ui = InitUI
    /\ lastOp = [op |-> "mount", ran |-> TRUE, fired |-> FALSE]
    /\ probe = NoProbe
    /\ channel = 0
    /\ inflight = <<>>
    /\ mounted = TRUE

----------------------------------------------------------------------------
(* Operations *)

\* the clock stops after this many units of 100 s
MaxTimeUnits == 38

\* part_001: the connection status fetchData derives from the latest reading
connectionOf(latest, t) ==
    LET isStale == t - latest.created_at > 60000
        statusCode == Number(latest.field8)
    IN  IF (isNum(statusCode) /\ statusCode.n = 0) \/ isStale
        THEN "disconnected" ELSE "connected"

\* the name under which a poll is observed
pollName(resp) ==
    IF ~resp.ok THEN "fetchFailed"
    ELSE IF Len(resp.feeds) > 0 THEN "fetchData" ELSE "fetchEmpty"

\* part_001: fetchData from the arrival of the response (after the awaits) to
\* the end of the render it causes.  resp.ok is FALSE when fetch or res.json()
\* throws.
onResponse(resp) ==
    /\ variant = "part_001"
    /\ IF resp.ok
       THEN IF Len(resp.feeds) > 0
            THEN LET latest == resp.feeds[Len(resp.feeds)]
                 IN  /\ data' = latest
                     /\ feeds' = resp.feeds
                     /\ connectionStatus' = connectionOf(latest, now)
            ELSE UNCHANGED <<data, feeds, connectionStatus>>
       ELSE /\ connectionStatus' = "disconnected"
            /\ UNCHANGED <<data, feeds>>
    /\ UNCHANGED <<variant, lastMaintenance, fw, now, permission, waterVolume, offsets,
                   closureOffsets, lastValidData, ui, probe>>
    /\ LET rendered == IF resp.ok /\ Len(resp.feeds) > 0
                       THEN resp.feeds[Len(resp.feeds)] ELSE data
       IN  Effects(riskScoreOf(rendered, offsets) # riskScore,
                   riskScoreOf(rendered, offsets), pollName(resp))

\* part_001: a poll whose response arrives before anything else happens
fetchData(resp) ==
    /\ mounted
    /\ onResponse(resp)
    /\ UNCHANGED <<channel, inflight, mounted>>

\* onResponseDash with an empty feed list handled as the catch block handles
\* a failure: the last known-good reading is rendered again
onResponseDash_emptyAsFailure(resp) ==
    /\ variant = "dashboard-app"
    /\ IF resp.ok /\ Len(resp.feeds) > 0
       THEN LET latest == resp.feeds[Len(resp.feeds)]
                previous == IF Len(resp.feeds) >= 2
                            THEN resp.feeds[Len(resp.feeds) - 1]
                            ELSE NoReading
            IN  /\ lastValidData' = latest
                /\ feeds' = resp.feeds
                /\ ui' = updateUI(latest, previous, closureOffsets,
                                  getSystemStatus(latest.created_at, now))
       ELSE /\ IF lastValidData # NoReading
               THEN ui' = updateUI(lastValidData, NoReading, closureOffsets,
                                   getSystemStatus(lastValidData.created_at, now))
               ELSE UNCHANGED ui
            /\ UNCHANGED <<lastValidData, feeds>>
    /\ UNCHANGED <<variant, lastMaintenance, fw, now, permission, waterVolume, offsets,
                   closureOffsets, data, connectionStatus, probe>>
    /\ Effects(ui'.riskPercent # ui.riskPercent, riskValOf(ui'.riskPercent),
               pollName(resp))

\* dashboard-app: fetchData from the arrival of the response (after the
\* awaits) to the end of the render it causes
onResponseDash(resp) ==
    /\ variant = "dashboard-app"
    /\ IF resp.ok
       THEN IF Len(resp.feeds) > 0
            THEN LET latest == resp.feeds[Len(resp.feeds)]
                     previous == IF Len(resp.feeds) >= 2
                                 THEN resp.feeds[Len(resp.feeds) - 1]
                                 ELSE NoReading
                 IN  /\ lastValidData' = latest
                     /\ feeds' = resp.feeds
                     /\ ui' = updateUI(latest, previous, closureOffsets,
                                       getSystemStatus(latest.created_at, now))
            ELSE UNCHANGED <<lastValidData, feeds, ui>>
       ELSE /\ IF lastValidData # NoReading
               THEN ui' = updateUI(lastValidData, NoReading, closureOffsets,
                                   getSystemStatus(lastValidData.created_at, now))
               ELSE UNCHANGED ui
            /\ UNCHANGED <<lastValidData, feeds>>
    /\ UNCHANGED <<variant, lastMaintenance, fw, now, permission, waterVolume, offsets,
                   closureOffsets, data, connectionStatus, probe>>
    /\ Effects(ui'.riskPercent # ui.riskPercent, riskValOf(ui'.riskPercent),
               pollName(resp))

\* dashboard-app: a poll whose response arrives before anything else happens
fetchDataDash(resp) ==
    /\ mounted
    /\ onResponseDash(resp)
    /\ UNCHANGED <<channel, inflight, mounted>>

\* the risk value the alert effect of the running build reads, in a render
\* whose state holds data d, offsets off and updateUI values u
alertRiskOf(d, off, u) ==
    IF variant = "part_001" THEN riskScoreOf(d, off) ELSE riskValOf(u.riskPercent)

alertRisk == alertRiskOf(data, offsets, ui)

\* onChange of an offset input: setOffsets({ ...offsets, [key]: Number(value) })
setOffsets(key, value) ==
    /\ offsets' = [offsets EXCEPT ![key] = Number(value)]
    /\ UNCHANGED <<variant, lastMaintenance, fw, now, permission, waterVolume, closureOffsets,
                   lastValidData, ui, feeds, data, connectionStatus, probe,
                   channel, inflight, mounted>>
    /\ LET next == [offsets EXCEPT ![key] = Number(value)]
       IN  Effects(alertRiskOf(data, next, ui) # alertRisk,
                   alertRiskOf(data, next, ui), "settings")

\* Math.max(0, v)
MathMax0(v) == IF isNum(v) THEN (IF v.n > 0 THEN v ELSE Num(0)) ELSE NaN

\* onChange of the volume input: setWaterVolume(Math.max(0, Number(value)))
setWaterVolume(value) ==
    /\ waterVolume' = MathMax0(Number(value))
    /\ UNCHANGED <<variant, lastMaintenance, fw, now, permission, offsets, closureOffsets,
                   lastValidData, ui, feeds, data, connectionStatus, probe,
                   channel, inflight, mounted>>
    /\ Effects(FALSE, alertRisk, "settings")

\* Math.round(v): floor(v + 0.5)
MathRound(v) == IF isNum(v) THEN Num(1000 * ((v.n + 500) \div 1000)) ELSE NaN

\* part_001: estimateVolume
estimateVolume ==
    /\ variant = "part_001"
    /\ flow # Dash
    /\ waterVolume' = MathRound(Num(Number(flow).n * 60 * 4))
    /\ UNCHANGED <<variant, lastMaintenance, fw, now, permission, offsets, closureOffsets,
                   lastValidData, ui, feeds, data, connectionStatus, probe,
                   channel, inflight, mounted>>
    /\ Effects(FALSE, alertRisk, "settings")

\* the page is closed and opened again in the same browser profile: state is
\* rebuilt from localStorage and the mount effects run
reload ==
    /\ feeds' = <<>>
    /\ data' = NoReading
    /\ connectionStatus' = "connecting"
    /\ lastValidData' = NoReading
    /\ ui' = InitUI
    /\ waterVolume' = OrElse(Number(localStorage.waterVolume), Num(1000000))
    /\ offsets' = localStorage.calibOffsets
    /\ closureOffsets' = offsets'
    /\ lastMaintenance' = IF variant = "part_001"
                          THEN OrElse(localStorage.lastMaintenance, Null)
                          ELSE localStorage.lastMaintenance
    /\ inflight' = <<>>
    /\ mounted' = TRUE
    /\ UNCHANGED <<variant, fw, now, permission, probe, channel>>
    /\ Effects(TRUE, alertRiskOf(NoReading, localStorage.calibOffsets, InitUI),
               "mount")

\* the 'Log Cleaning / Maintenance' button
logMaintenance ==
    /\ lastMaintenance' = toISOString(now)
    /\ UNCHANGED <<variant, fw, now, permission, waterVolume, offsets,
                   closureOffsets, lastValidData, ui, feeds, data,
                   connectionStatus, probe, channel, inflight, mounted>>
    /\ Effects(FALSE, alertRisk, "logMaintenance")

\* new Date(v).getTime(): NaN for a text that is not a date
getTime(v) == IF v.k = "iso" THEN Num(v.n) ELSE NaN

\* daysSinceMaintenance at the instant t
daysSinceMaintenanceAt(lm, t) ==
    IF ~Truthy(lm) THEN [text |-> "Never", days |-> Null]
    ELSE LET diff == Sub(Num(t), getTime(lm))
             days == IF isNum(diff) THEN Num(diff.n \div 86400000) ELSE NaN
         IN  IF isNum(days) /\ days.n = 0 THEN [text |-> "Today", days |-> days]
             ELSE [text |-> "days ago", days |-> days]

daysSinceMaintenance == daysSinceMaintenanceAt(lastMaintenance, now)

\* the user answers, or later changes, the notification permission
setPermission(p) ==
    /\ permission # p
    /\ permission' = p
    /\ lastOp' = [op |-> "setPermission", ran |-> FALSE, fired |-> FALSE]
    /\ UNCHANGED <<variant, lastMaintenance, fw, now, localStorage, notifications, feeds, data,
                   connectionStatus, waterVolume, offsets, closureOffsets,
                   lastValidData, ui, probe, channel, inflight, mounted>>

\* handleExport: builds the CSV of the history and downloads it; no state of
\* the component or of localStorage is written
handleExport ==
    /\ lastOp' = [op |-> "handleExport", ran |-> FALSE, fired |-> FALSE]
    /\ UNCHANGED <<variant, lastMaintenance, fw, now, permission, localStorage, notifications, feeds,
                   data, connectionStatus, waterVolume, offsets, closureOffsets,
                   lastValidData, ui, probe, channel, inflight, mounted>>

\* API_URL: feeds.json?results=10
results == 10

\* the channel holds at most this many entries
MaxReadings == 12

\* firmware: the ThingSpeak push, 20 s after the previous one
upload(max) ==
    /\ channel < max
    /\ channel' = channel + 1
    /\ now' = now + 20000
    /\ lastOp' = [op |-> "upload", ran |-> FALSE, fired |-> FALSE]
    /\ UNCHANGED <<variant, lastMaintenance, fw, permission, localStorage, notifications, feeds,
                   data, connectionStatus, waterVolume, offsets,
                   closureOffsets, lastValidData, ui, probe, inflight, mounted>>

\* time passes
Tick(d) ==
    /\ now + d <= MaxTimeUnits * 100000
    /\ now' = now + d
    /\ lastOp' = [op |-> "Tick", ran |-> FALSE, fired |-> FALSE]
    /\ UNCHANGED <<variant, lastMaintenance, fw, permission, localStorage, notifications, feeds,
                   data, connectionStatus, waterVolume, offsets,
                   closureOffsets, lastValidData, ui, probe, channel, inflight,
                   mounted>>

----------------------------------------------------------------------------
(* Firmware: setup(), loop() and the flow interrupt *)

\* the firmware is observed for this many ms of uptime
MaxUptime == 61000

\* at most this many rising edges arrive on FLOW_PIN
MaxPulses == 3

\* flowPulses, millis() and lastFlowMillis are 32 bits wide; MaxUptime and
\* MaxPulses keep them far below the wrap-around.

\* (float) of a uint32: 24 bits of mantissa, round to nearest, ties to even
RECURSIVE ulp(_)
ulp(n) == IF n < 16777216 THEN 1 ELSE 2 * ulp(n \div 2)

float(n) ==
    LET u == ulp(n)
        q == n \div u
        r == n % u
    IN  IF 2 * r > u \/ (2 * r = u /\ q % 2 = 1) THEN (q + 1) * u ELSE q * u

FirmwareFrame ==
    UNCHANGED <<variant, permission, localStorage, notifications, feeds, data,
                connectionStatus, waterVolume, offsets, closureOffsets,
                lastValidData, ui, probe, inflight, mounted, lastMaintenance>>

\* flowISR
flowISR(f) == [f EXCEPT !.flowPulses = f.flowPulses + 1,
                        !.handled = f.handled + 1]

\* a rising edge on FLOW_PIN: the interrupt is taken at once, or stays
\* pending while interrupts are disabled
flowEdge ==
    /\ fw.pc # "setup"
    /\ fw.handled + (IF fw.pending THEN 1 ELSE 0) < MaxPulses
    /\ ~fw.pending
    /\ fw' = IF fw.ints THEN flowISR(fw) ELSE [fw EXCEPT !.pending = TRUE]
    /\ lastOp' = [op |-> "flowEdge", ran |-> FALSE, fired |-> FALSE]
    /\ UNCHANGED <<now, channel>>
    /\ FirmwareFrame

\* setup(): returns when WiFi is connected, t ms after the reset
setup(t) ==
    /\ fw.pc = "setup"
    /\ fw' = [fw EXCEPT !.pc = "flow", !.millis = t]
    /\ now' = now + t
    /\ lastOp' = [op |-> "setup", ran |-> FALSE, fired |-> FALSE]
    /\ UNCHANGED channel
    /\ FirmwareFrame

\* loop(): if (millis() - lastFlowMillis >= 1000)
loopFlowTest ==
    /\ fw.pc = "flow"
    /\ fw' = [fw EXCEPT !.pc = IF fw.millis - fw.lastFlowMillis >= 1000
                               THEN "noInterrupts" ELSE "push"]
    /\ lastOp' = [op |-> "loop", ran |-> FALSE, fired |-> FALSE]
    /\ UNCHANGED <<now, channel>>
    /\ FirmwareFrame

\* loop(): the flow block entered without noInterrupts()
loopNoInterrupts_unmasked ==
    /\ fw.pc = "noInterrupts"
    /\ fw' = [fw EXCEPT !.pc = "read"]
    /\ lastOp' = [op |-> "loop", ran |-> FALSE, fired |-> FALSE]
    /\ UNCHANGED <<now, channel>>
    /\ FirmwareFrame

\* loop(): noInterrupts()
loopNoInterrupts ==
    /\ fw.pc = "noInterrupts"
    /\ fw' = [fw EXCEPT !.pc = "read", !.ints = FALSE]
    /\ lastOp' = [op |-> "loop", ran |-> FALSE, fired |-> FALSE]
    /\ UNCHANGED <<now, channel>>
    /\ FirmwareFrame

\* loop(): flowRate = flowPulses; the window's count is published
loopRead ==
    /\ fw.pc = "read"
    /\ fw' = [fw EXCEPT !.pc = "reset", !.flowRate = float(fw.flowPulses),
                        !.published = fw.published + float(fw.flowPulses)]
    /\ lastOp' = [op |-> "loop", ran |-> FALSE, fired |-> FALSE]
    /\ UNCHANGED <<now, channel>>
    /\ FirmwareFrame

\* loop(): flowPulses = 0
loopReset ==
    /\ fw.pc = "reset"
    /\ fw' = [fw EXCEPT !.pc = "interrupts", !.flowPulses = 0]
    /\ lastOp' = [op |-> "loop", ran |-> FALSE, fired |-> FALSE]
    /\ UNCHANGED <<now, channel>>
    /\ FirmwareFrame

\* loop(): interrupts(), on which a pending interrupt is taken, and
\* lastFlowMillis = millis()
loopInterrupts ==
    /\ fw.pc = "interrupts"
    /\ LET taken == IF fw.pending THEN flowISR(fw) ELSE fw
       IN  fw' = [taken EXCEPT !.pc = "push", !.ints = TRUE, !.pending = FALSE,
                               !.lastFlowMillis = fw.millis]
    /\ lastOp' = [op |-> "loop", ran |-> FALSE, fired |-> FALSE]
    /\ UNCHANGED <<now, channel>>
    /\ FirmwareFrame

\* loop(): if (millis() % 20000 < 1000) taken: the fields are set and
\* writeFields is called; the channel gets an entry when the write succeeds
loopPush(ok) ==
    /\ fw.pc = "push"
    /\ fw.millis % 20000 < 1000
    /\ ok => channel < MaxReadings
    /\ fw' = [fw EXCEPT !.pc = "delay", !.periodPushes = fw.periodPushes + 1]
    /\ channel' = IF ok THEN channel + 1 ELSE channel
    /\ lastOp' = [op |-> "writeFields", ran |-> FALSE, fired |-> FALSE]
    /\ UNCHANGED now
    /\ FirmwareFrame

\* loop(): if (millis() % 20000 < 1000) not taken
loopNoPush ==
    /\ fw.pc = "push"
    /\ ~(fw.millis % 20000 < 1000)
    /\ fw' = [fw EXCEPT !.pc = "delay"]
    /\ lastOp' = [op |-> "loop", ran |-> FALSE, fired |-> FALSE]
    /\ UNCHANGED <<now, channel>>
    /\ FirmwareFrame

\* loop(): delay(1000) and the return to the top of loop(); the iteration
\* has taken d ms in all. When a 20-second period of uptime ends, its number
\* of push attempts is recorded.
loopDelay(d) ==
    /\ fw.pc = "delay"
    /\ fw.millis + d <= MaxUptime
    /\ LET t == fw.millis + d
           ends == t \div 20000 # fw.millis \div 20000
       IN  fw' = [fw EXCEPT !.pc = "flow", !.millis = t,
                           !.periodPushes = IF ends THEN 0 ELSE fw.periodPushes,
                           !.closed = IF ends THEN Append(fw.closed, fw.periodPushes)
                                      ELSE fw.closed]
    /\ now' = now + d
    /\ lastOp' = [op |-> "loop", ran |-> FALSE, fired |-> FALSE]
    /\ UNCHANGED channel
    /\ FirmwareFrame

----------------------------------------------------------------------------
(* Direct calls of the pure functions *)

ProbeFrame ==
    UNCHANGED <<variant, lastMaintenance, fw, now, permission, localStorage, notifications, feeds,
                data, connectionStatus, waterVolume, offsets, closureOffsets,
                lastValidData, ui, lastOp, channel, inflight, mounted>>

ProbePredict(t, p, tu, f, td) ==
    /\ probe' = [fn |-> "predictBiofilmRisk", temp |-> t, ph |-> p,
                 turbidity |-> tu, flow |-> f, tds |-> td,
                 out |-> predictBiofilmRisk(t, p, tu, f, td)]
    /\ ProbeFrame

ProbeDSS(d) ==
    /\ probe' = [fn |-> "runDSS", d |-> d, out |-> runDSS(d)]
    /\ ProbeFrame

\* two calls of runDSS, for readings to be compared
ProbeDSSPair(d1, d2) ==
    /\ probe' = [fn |-> "runDSSPair", d1 |-> d1, d2 |-> d2,
                 out1 |-> runDSS(d1), out2 |-> runDSS(d2)]
    /\ ProbeFrame

ProbeTreatments(vol, risk, dss, phv) ==
    /\ probe' = [fn |-> "calculateTreatments", vol |-> vol, risk |-> risk,
                 dss |-> dss, ph |-> phv,
                 out |-> calculateTreatments(vol, risk, dss, phv)]
    /\ ProbeFrame

----------------------------------------------------------------------------
(* Inputs *)

\* Scenario A of the specification, as ThingSpeak delivers it (strings)
Base ==
    [created_at |-> 0, field1 |-> Str(7200), field2 |-> Str(32500),
     field3 |-> Str(55000), field4 |-> Str(40000), field5 |-> Str(8500),
     field6 |-> Str(600000), field7 |-> Str(75000), field8 |-> Str(1000)]

Vary(r, x) == [r EXCEPT ![x[1]] = x[2]]

\* single-field departures from Base
Variations ==
    {<<"field1", Str(6460)>>, <<"field1", Null>>, <<"field1", Junk>>,
     <<"field2", Str(29000)>>, <<"field2", Null>>,
     <<"field4", Str(9960)>>, <<"field4", Str(70000)>>, <<"field4", Null>>,
     <<"field5", Str(2000)>>, <<"field5", Junk>>,
     <<"field6", Str(300000)>>, <<"field6", Null>>,
     <<"field7", Str(150000)>>, <<"field7", Str(0)>>, <<"field7", Str(-5000)>>,
     <<"field7", Junk>>, <<"field7", Str(20000)>>}

Singles == {Base} \cup {Vary(Base, x) : x \in Variations}

\* each of them also without an external risk score
PipelineReadings == Singles \cup {Vary(r, <<"field7", Null>>) : r \in Singles}

PipelineBodies ==
    {<<>>} \cup {<<r>> : r \in PipelineReadings} \cup {<<Base, r>> : r \in Singles}

\* the readings of a response, stamped: the latest is age ms old and each
\* earlier one 20 s older
Stamp(fs, age) ==
    [i \in 1..Len(fs) |->
        [fs[i] EXCEPT !.created_at = now - age - 20000 * (Len(fs) - i)]]

Ok(fs) == [ok |-> TRUE, feeds |-> fs]

Failed == [ok |-> FALSE, feeds |-> <<>>]

\* what the user types into an offset input: <<key, e.target.value>>
OffsetEdits ==
    {<<"temp", Str(2000)>>, <<"temp", Str(0)>>, <<"ph", Str(40)>>, <<"ph", EmptyStr>>}

\* what the user types into the volume input
VolumeInputs == {Str(140000), Str(-5000), Str(0), EmptyStr}

\* the responses a poll can receive at this moment
Responses(bodies, ages) == {Ok(Stamp(fs, age)) : fs \in bodies, age \in ages}

Next ==
    \/ \E resp \in Responses(PipelineBodies, {0}) : fetchData(resp)
    \/ fetchData(Failed)
    \/ \E resp \in Responses(PipelineBodies, {0}) : fetchDataDash(resp)
    \/ fetchDataDash(Failed)
    \/ \E e \in OffsetEdits : setOffsets(e[1], e[2])
    \/ reload

\* The pipeline: polls over the pipeline readings, calibration, reloads.
Spec == Init /\ [][Next]_vars

\* readings that differ in the flow only
FlowBodies ==
    {<<Base>>, <<Vary(Base, <<"field4", Str(9960)>>)>>,
     <<Vary(Base, <<"field4", Str(-2000)>>)>>, <<Vary(Base, <<"field4", Null>>)>>}

NextSettings ==
    \/ \E resp \in Responses(FlowBodies, {0}) : fetchData(resp)
    \/ \E resp \in Responses(FlowBodies, {0}) : fetchDataDash(resp)
    \/ \E e \in OffsetEdits : setOffsets(e[1], e[2])
    \/ \E value \in VolumeInputs : setWaterVolume(value)
    \/ estimateVolume
    \/ reload

\* The settings: volume and offsets edited, estimated and reloaded.
SpecSettings == Init /\ [][NextSettings]_vars

NextMaintenance ==
    \/ logMaintenance
    \/ \E d \in {600000, 3100000} : Tick(d)
    \/ \E p \in {"granted", "denied"} : setPermission(p)
    \/ reload

\* The maintenance record: logged, kept while time passes, reloaded.
SpecMaintenance == Init /\ [][NextMaintenance]_vars

\* ms from the reset to the first pass of loop()
BootTimes == {500, 3000}

\* ms one pass of loop() takes: delay(1000) plus the sensor reads and the push
LoopDurations == {1000, 1500}

NextFlow ==
    \/ flowEdge
    \/ \E t \in BootTimes : setup(t)
    \/ loopFlowTest
    \/ loopNoInterrupts
    \/ loopRead
    \/ loopReset
    \/ loopInterrupts
    \/ \E ok \in BOOLEAN : loopPush(ok)
    \/ loopNoPush
    \/ loopDelay(1000)

\* The flow counter: loop() interleaved with the flow interrupt.
SpecFlow == Init /\ [][NextFlow]_vars

NextPush ==
    \/ \E t \in BootTimes : setup(t)
    \/ loopFlowTest
    \/ loopNoInterrupts
    \/ loopRead
    \/ loopReset
    \/ loopInterrupts
    \/ \E ok \in BOOLEAN : loopPush(ok)
    \/ loopNoPush
    \/ \E d \in LoopDurations : loopDelay(d)

\* The telemetry push: passes of loop() of different durations.
SpecPush == Init /\ [][NextPush]_vars

\* readings that differ in the risk only; without an external score the
\* heuristic gives 100 for HeuristicHigh, and 80 once the pH offset is 2
HeuristicHigh ==
    [Base EXCEPT !.field1 = Str(7000), !.field2 = Str(25000),
                 !.field4 = Str(5000), !.field5 = Str(8000), !.field7 = Null]

AlertBodies ==
    {<<Vary(Base, <<"field7", Str(85000)>>)>>,
     <<Vary(Base, <<"field7", Str(80000)>>)>>,
     <<HeuristicHigh>>}

AlertOffsetEdits == {<<"ph", Str(2000)>>, <<"ph", Str(0)>>}

TickSteps == {600000, 3100000}

NextAlert ==
    \/ \E resp \in Responses(AlertBodies, {0}) : fetchData(resp)
    \/ fetchData(Failed)
    \/ \E resp \in Responses(AlertBodies, {0}) : fetchDataDash(resp)
    \/ fetchDataDash(Failed)
    \/ \E e \in AlertOffsetEdits : setOffsets(e[1], e[2])
    \/ \E p \in {"granted", "denied"} : setPermission(p)
    \/ \E d \in TickSteps : Tick(d)
    \/ handleExport
    \/ reload

\* The alert throttle: polls that differ in the risk, over time.
SpecAlert == Init /\ [][NextAlert]_vars

\* readings that differ in the external score or in what the heuristic sees
TrendReadings ==
    {Base, Vary(Base, <<"field7", Str(76000)>>), Vary(Base, <<"field7", Str(20000)>>),
     Vary(Base, <<"field5", Str(2000)>>), Vary(Base, <<"field7", Null>>),
     Vary(Vary(Base, <<"field5", Str(2000)>>), <<"field7", Null>>)}

\* responses of one and of two readings
TrendBodies ==
    {<<r>> : r \in TrendReadings} \cup {<<q, r>> : q, r \in TrendReadings}

NextTrend ==
    \/ \E resp \in Responses(TrendBodies, {0}) : fetchData(resp)
    \/ fetchData(Failed)
    \/ \E resp \in Responses(TrendBodies, {0}) : fetchDataDash(resp)
    \/ fetchDataDash(Failed)

\* The trend: polls whose last two readings differ.
SpecTrend == Init /\ [][NextTrend]_vars

\* the i-th entry of the channel; the firmware pushes one every 20 s
entry(i) == [Base EXCEPT !.created_at = 20000 * i]

\* the answer to a URL without the results parameter: every entry
channelFeeds_all(n) == [k \in 1..n |-> entry(k)]

\* ThingSpeak's answer to API_URL when the channel holds n entries: the last
\* `results` of them, oldest first
channelFeeds(n) ==
    LET len == IF n < results THEN n ELSE results
    IN  [k \in 1..len |-> entry(n - len + k)]

\* readings that differ in the status code (field 8): 1, 0, the firmware's
\* "Active", and none
ConnBodies ==
    {<<Vary(Base, <<"field8", c>>)>> : c \in {Str(1000), Str(0), Junk, Null}}

\* the age of the latest reading when the response arrives, ms
ConnAges == {0, 59000, 60000, 61000, 90000}

NextConn ==
    \/ \E resp \in Responses(ConnBodies, ConnAges) : fetchData(resp)
    \/ fetchData(Failed)
    \/ \E resp \in Responses(ConnBodies, ConnAges) : fetchDataDash(resp)
    \/ fetchDataDash(Failed)

\* Connectivity: polls whose latest reading differs in age and status code.
SpecConn == Init /\ [][NextConn]_vars

\* at most this many fetches are in flight
MaxInFlight == 2

\* the channel of the poll specification holds at most this many entries
MaxPollReadings == 3

\* the response a fetch sent when the channel held n entries will deliver
responseOf(req) == IF req.ok THEN Ok(channelFeeds(req.n)) ELSE Failed

\* fetchData up to its first await: the mount effect or the interval timer
\* calls it, whether or not an earlier call is still waiting
fetchDataStart(ok) ==
    /\ mounted
    /\ Len(inflight) < MaxInFlight
    /\ inflight' = Append(inflight, [ok |-> ok, n |-> IF ok THEN channel ELSE 0])
    /\ lastOp' = [op |-> "fetchStart", ran |-> FALSE, fired |-> FALSE]
    /\ UNCHANGED <<variant, lastMaintenance, fw, now, permission, localStorage, notifications, feeds,
                   data, connectionStatus, waterVolume, offsets,
                   closureOffsets, lastValidData, ui, probe, channel, mounted>>

\* the rest of fetchData when the component has been unmounted meanwhile:
\* React drops the state setters' updates and runs no effect; the write to
\* the ref lastValidData.current of dashboard-app takes place
afterUnmount(resp) ==
    /\ lastValidData' = IF variant = "dashboard-app" /\ resp.ok /\ Len(resp.feeds) > 0
                        THEN resp.feeds[Len(resp.feeds)] ELSE lastValidData
    /\ lastOp' = [op |-> "fetchAfterUnmount", ran |-> FALSE, fired |-> FALSE]
    /\ UNCHANGED <<variant, lastMaintenance, fw, now, permission, localStorage, notifications, feeds,
                   data, connectionStatus, waterVolume, offsets,
                   closureOffsets, ui, probe>>

\* the i-th fetch in flight is answered and fetchData runs to its end
fetchDataEnd(i) ==
    /\ i \in 1..Len(inflight)
    /\ \E resp \in {responseOf(inflight[i])} :
          IF mounted THEN onResponse(resp) \/ onResponseDash(resp)
          ELSE afterUnmount(resp)
    /\ inflight' = [k \in 1..(Len(inflight) - 1) |->
                       IF k < i THEN inflight[k] ELSE inflight[k + 1]]
    /\ UNCHANGED <<channel, mounted>>

\* the component is unmounted: the cleanup of the poll effect clears the timer
unmount ==
    /\ mounted
    /\ mounted' = FALSE
    /\ lastOp' = [op |-> "unmount", ran |-> FALSE, fired |-> FALSE]
    /\ UNCHANGED <<variant, lastMaintenance, fw, now, permission, localStorage, notifications, feeds,
                   data, connectionStatus, waterVolume, offsets,
                   closureOffsets, lastValidData, ui, probe, channel, inflight>>

NextPoll ==
    \/ upload(MaxPollReadings)
    \/ \E ok \in BOOLEAN : fetchDataStart(ok)
    \/ \E i \in 1..MaxInFlight : fetchDataEnd(i)
    \/ unmount

\* The poll timer: fetches are sent, answered in any order, and the
\* component is unmounted.
SpecPoll == Init /\ [][NextPoll]_vars

NextHistory ==
    \/ upload(MaxReadings)
    \/ fetchData(Ok(channelFeeds(channel)))
    \/ fetchData(Failed)
    \/ fetchDataDash(Ok(channelFeeds(channel)))
    \/ fetchDataDash(Failed)

\* The history: the channel grows and is polled.
SpecHistory == Init /\ [][NextHistory]_vars

PredictInputs ==
    [temp : {Num(15000), Num(20000), Num(25000), Num(34900), Num(35000), Num(35100)},
     ph : {Num(6500), Num(7000), Num(8000), Num(9000)},
     turbidity : {Num(5000), Num(8000)},
     flow : {Num(5000), Num(10000)},
     tds : {Num(500000), Num(600000)}]

DssInputs ==
    {[Base EXCEPT !.field7 = r, !.field5 = tu, !.field4 = f, !.field6 = td,
                  !.field2 = t] :
        r \in {Str(0), Str(29900), Str(30000), Str(59900), Str(60000), Str(75000),
               Str(100000)},
        tu \in {Str(2000), Str(8500)}, f \in {Str(40000), Str(70000)},
        td \in {Str(300000), Str(600000)}, t \in {Str(25000), Str(32500)}}

TreatmentInputs ==
    [vol : {Num(0), Num(1000), Num(20000), Num(139000), Num(140000), Num(1000000)},
     risk : {Num(0), Num(59900), Num(60000), NaN},
     dss : {"Normal Operation", "Preventive Maintenance", "Corrective Action Required"},
     ph : {Dash, Str(6490), Str(6500), Str(7000), Str(8500), Str(8510), Junk}]

\* a reading with the given risk field in which exactly the first k of the
\* conditions turbidity > 5, flow < 60, tds > 500, temperature > 30 hold
WithFactors(r, k) ==
    [Base EXCEPT !.field7 = r,
                 !.field5 = IF k >= 1 THEN Str(8500) ELSE Str(2000),
                 !.field4 = IF k >= 2 THEN Str(40000) ELSE Str(70000),
                 !.field6 = IF k >= 3 THEN Str(600000) ELSE Str(300000),
                 !.field2 = IF k >= 4 THEN Str(32500) ELSE Str(25000)]

\* risk fields: numbers, and a text that Number() turns into NaN
PairRisks ==
    {Str(0), Str(29900), Str(30000), Str(59900), Str(60000), Str(75000),
     Str(100000), Junk}

\* one call per behaviour: the functions keep no state between calls
NextPure ==
    /\ probe = NoProbe
    /\ \/ \E i \in PredictInputs :
             ProbePredict(i.temp, i.ph, i.turbidity, i.flow, i.tds)
       \/ \E d \in DssInputs : ProbeDSS(d)
       \/ \E r \in PairRisks, a, b \in 0..4 :
             ProbeDSSPair(WithFactors(r, a), WithFactors(r, b))
       \/ \E i \in TreatmentInputs : ProbeTreatments(i.vol, i.risk, i.dss, i.ph)

\* Direct calls of the pure functions over bounded inputs.
SpecPure == Init /\ [][NextPure]_vars

----------------------------------------------------------------------------
(* Properties *)

InRange(v) == isNum(v) /\ 0 <= v.n /\ v.n <= 100000

IsNumeric(v) == v.k \in {"num", "numstr"}

Clamp(v) == IF v.n < 0 THEN Num(0) ELSE IF v.n > 100000 THEN Num(100000) ELSE v

Last(q) == q[Len(q)]

\* C1: whatever its source, the resolved risk score that is displayed and fed
\* to the stage classifier, DSS, dosage calculator and alert throttle lies in
\* [0,100].
C1_ResolvedRiskInRange ==
    /\ (variant = "part_001" /\ data # NoReading) => InRange(riskScore)
    /\ (variant = "dashboard-app" /\ ui.hasData) => InRange(riskValOf(ui.riskPercent))

\* C2: a numeric external risk value (0 included) is the resolved risk, clamped
\* to [0,100], and the heuristic branch is taken only when the reading carries
\* no numeric external risk.
C2_ExternalRiskAuthoritative ==
    /\ (variant = "part_001" /\ data # NoReading /\ IsNumeric(data.field7))
          => /\ rawRisk # Null
             /\ riskScore = Clamp(Number(data.field7))
    /\ (variant = "part_001" /\ data # NoReading /\ rawRisk = Null)
          => ~IsNumeric(data.field7)
    /\ (variant = "dashboard-app" /\ ui.hasData /\ IsNumeric(lastValidData.field7))
          => riskValOf(ui.riskPercent) = Clamp(Number(lastValidData.field7))

\* the reference formula with the temperature term as the claim states it
ClaimedScore(t, p, tu, f, td) ==
    LET raw == 10000
               + (IF t > 20000 /\ t < 35000 THEN 20000
                  ELSE IF t >= 35000 THEN 10000 ELSE 0)
               + (IF p > 6500 /\ p < 8000 THEN 20000 ELSE 0)
               + (IF tu > 5000 THEN 25000 ELSE 0)
               + (IF f < 10000 THEN 25000 ELSE 0)
               + (IF td > 500000 THEN 10000 ELSE 0)
    IN  IF raw > 100000 THEN 100000 ELSE IF raw < 0 THEN 0 ELSE raw

\* the reference formula with +10 only above 35
AmendedScore(t, p, tu, f, td) ==
    LET raw == 10000
               + (IF t > 20000 /\ t < 35000 THEN 20000
                  ELSE IF t > 35000 THEN 10000 ELSE 0)
               + (IF p > 6500 /\ p < 8000 THEN 20000 ELSE 0)
               + (IF tu > 5000 THEN 25000 ELSE 0)
               + (IF f < 10000 THEN 25000 ELSE 0)
               + (IF td > 500000 THEN 10000 ELSE 0)
    IN  IF raw > 100000 THEN 100000 ELSE IF raw < 0 THEN 0 ELSE raw

\* C3 as claimed: the heuristic score is base 10, +20 if 20 < temperature < 35,
\* otherwise +10 if temperature >= 35, +20 if 6.5 < ph < 8.0, +25 if
\* turbidity > 5, +25 if flow < 10, +10 if tds > 500, clamped to [0,100].
C3_HeuristicAsClaimed ==
    probe.fn = "predictBiofilmRisk" =>
        probe.out = Num(ClaimedScore(probe.temp.n, probe.ph.n, probe.turbidity.n,
                                     probe.flow.n, probe.tds.n))

\* C3 amended: as claimed, except that the +10 applies only if temperature > 35
\* (at exactly 35 nothing is added); temperature=25, ph=7, turbidity=8, flow=5,
\* tds=600 yields 100.
C3_HeuristicFormula ==
    probe.fn = "predictBiofilmRisk" =>
        /\ probe.out = Num(AmendedScore(probe.temp.n, probe.ph.n, probe.turbidity.n,
                                        probe.flow.n, probe.tds.n))
        /\ (probe.temp = Num(25000) /\ probe.ph = Num(7000)
            /\ probe.turbidity = Num(8000) /\ probe.flow = Num(5000)
            /\ probe.tds = Num(600000)) => probe.out = Num(100000)

\* the heuristic applied at exactly 35 degrees: 10 + 0 + 20 + 25 + 25 + 10
C3_Witness ==
    /\ probe.fn = "predictBiofilmRisk"
    /\ probe.temp = Num(35000) /\ probe.ph = Num(7000)
    /\ probe.turbidity = Num(8000) /\ probe.flow = Num(5000)
    /\ probe.tds = Num(600000)
    /\ probe.out = Num(90000)

\* the decision table of the DSS as a function of (risk, factorCount)
DssTable(risk, factorCount) ==
    IF risk < 30000 /\ factorCount <= 1
    THEN <<"Normal Operation", "No maintenance required", "Low", "After 24 hours">>
    ELSE IF risk < 60000 \/ factorCount = 2
    THEN <<"Preventive Maintenance", "Schedule inspection & partial cleaning",
           "Medium", "Within 12 hours">>
    ELSE <<"Corrective Action Required", "Immediate cleaning & backwash", "High",
           "Within 1 hour">>

CautionFactors(status) ==
    (IF status.turb = "caution" THEN <<"Turbidity high">> ELSE <<>>) \o
    (IF status.flow = "caution" THEN <<"Flow low">> ELSE <<>>) \o
    (IF status.tds = "caution" THEN <<"TDS high">> ELSE <<>>) \o
    (IF status.temp = "caution" THEN <<"Temperature high">> ELSE <<>>)

\* C5: the contributing factors are the true conditions among turbidity > 5,
\* flow < 60, tds > 500, temperature > 30 on the normalized reading, in that
\* order, so a parameter is listed exactly when its normalized value is shown
\* with status 'caution'.
C5_FactorsMatchNormalizedReading ==
    (variant = "dashboard-app" /\ ui.hasData)
        => ui.contributingFactors = CautionFactors(ui.paramStatus)

\* the values part_001 compares against its thresholds, with the field and the
\* offset each comes from
ComparedValues ==
    {<<"field1", "ph", ph>>, <<"field2", "temp", temp>>, <<"field3", "", humidity>>,
     <<"field4", "", flow>>, <<"field5", "", turb>>, <<"field6", "tds", tds>>}

\* C6: the values the threshold checks compare against are exactly raw +
\* offset for pH, temperature and TDS and the raw value for humidity, flow and
\* turbidity, with no rounding.
C6_ComparedValuesAreRawPlusOffset ==
    /\ (variant = "part_001" /\ data # NoReading) =>
          \A c \in ComparedValues :
              IsNumeric(data[c[1]]) =>
                  Number(c[3]) = Add(Number(data[c[1]]),
                                     IF c[2] = "" THEN Num(0) ELSE offsets[c[2]])
    /\ (variant = "dashboard-app" /\ ui.hasData /\ IsNumeric(lastValidData.field1))
          => Number(ui.ph) = Add(Number(lastValidData.field1), closureOffsets.ph)

\* the sensor field behind each factor name
FactorField ==
    {<<"Turbidity high", "field5">>, <<"Flow low", "field4">>,
     <<"TDS high", "field6">>, <<"Temperature high", "field2">>,
     <<"High Temp", "field2">>, <<"Low Flow", "field4">>,
     <<"High Turbidity", "field5">>, <<"Unstable pH", "field1">>}

Elems(q) == {q[i] : i \in 1..Len(q)}

\* C7: a sensor field that is missing or non-numeric adds no contributing
\* factor, and the reading still yields a decision.
C7_UnavailableFieldIsNotAFactor ==
    /\ (variant = "dashboard-app" /\ ui.hasData) =>
          /\ \A x \in FactorField :
                ~IsNumeric(lastValidData[x[2]]) => x[1] \notin Elems(ui.contributingFactors)
          /\ ui.dssDecision \in {"Normal Operation", "Preventive Maintenance",
                                 "Corrective Action Required"}
    /\ (variant = "part_001" /\ data # NoReading) =>
          \A x \in FactorField :
              ~IsNumeric(data[x[2]]) => x[1] \notin Elems(contributingFactors)

\* the treatment names the claim expects, in list order
ExpectedTreatments(risk, dss, phv) ==
    (IF (isNum(risk) /\ risk.n >= 60000) \/ dss # "Normal Operation"
     THEN <<CHEMICALS.chlorine.name>> ELSE <<>>) \o
    (IF IsNumeric(phv) /\ phv.n < 6500 THEN <<CHEMICALS.phPlus.name>> ELSE <<>>) \o
    (IF IsNumeric(phv) /\ phv.n > 8500 THEN <<CHEMICALS.phMinus.name>> ELSE <<>>)

C9_AlertThrottle ==
    /\ \A i \in 1..Len(notifications) : Gt(notifications[i].risk, Num(80000))
    /\ \A i, j \in 1..Len(notifications) :
          i < j => notifications[j].t - notifications[i].t > 3600000
    /\ lastOp.fired =>
          /\ permission = "granted"
          /\ Gt(alertRisk, Num(80000))
          /\ Last(notifications).t = now

\* two alerts have fired and a third update above the threshold was suppressed
C9_Witness ==
    /\ Len(notifications) = 2
    /\ lastOp.ran /\ ~lastOp.fired
    /\ Gt(alertRisk, Num(80000))
    /\ permission = "granted"
    /\ now - Last(notifications).t <= 3600000

\* C10: the throttle is evaluated on every resolved-risk update, so a poll that
\* resolves a risk above 80 more than 3600 s after the previous firing, with
\* notifications available, fires again.
C10_FiresAgainAfterCooldown ==
    (lastOp.op = "fetchData" /\ Gt(alertRisk, Num(80000)) /\ permission = "granted"
     /\ Len(notifications) > 0)
        => now - Last(notifications).t <= 3600000


\* C11: lastAlertTimestamp changes only in a step in which an alert fires, and
\* is then the time of that firing; every other step (polls with risk <= 80,
\* suppressed updates, updates without permission, settings changes, CSV
\* export, failed polls, reloads) leaves it unchanged.
C11_TimestampFrame ==
    [][/\ localStorage'.lastAlertTimestamp # localStorage.lastAlertTimestamp
            => /\ Len(notifications') = Len(notifications) + 1
               /\ Last(notifications').t = now
               /\ localStorage'.lastAlertTimestamp = Str(now)
       /\ Len(notifications') # Len(notifications)
            => localStorage'.lastAlertTimestamp = Str(now)]_vars

\* after a firing, time has passed and an update above the threshold was
\* suppressed; the stored timestamp is still that of the firing
C11_Witness ==
    /\ Len(notifications) = 1
    /\ now > notifications[1].t
    /\ lastOp.op = "fetchData" /\ lastOp.ran /\ ~lastOp.fired
    /\ Gt(alertRisk, Num(80000))
    /\ permission = "granted"
    /\ localStorage.lastAlertTimestamp = Str(notifications[1].t)


\* the sign of a direction
DirSign(dir) == IF dir = "up" THEN 1 ELSE IF dir = "down" THEN -1 ELSE 0

\* the sign of the change from a to b, 0 when either is not a number
ChangeSign(a, b) ==
    IF isNum(a) /\ isNum(b)
    THEN (IF b.n > a.n THEN 1 ELSE IF b.n < a.n THEN -1 ELSE 0)
    ELSE 0

\* C12: the trend compares the resolved risks (external score when present,
\* heuristic otherwise) of the previous and the latest reading, so a direction
\* other than stable has the sign of the change of the resolved risk.
C12_TrendFollowsResolvedRisk ==
    /\ (variant = "part_001" /\ Len(feeds) >= 2 /\ trend.dir \in {"up", "down"})
          => DirSign(trend.dir)
                = ChangeSign(riskScoreOf(feeds[Len(feeds) - 1], offsets),
                             riskScoreOf(feeds[Len(feeds)], offsets))
    /\ (variant = "dashboard-app" /\ Len(feeds) >= 2 /\ ui.trend.dir \in {"up", "down"})
          => DirSign(ui.trend.dir)
                = ChangeSign(Number(feeds[Len(feeds) - 1].field7),
                             Number(feeds[Len(feeds)].field7))


\* the trend the claim prescribes for a difference diff (thousandths)
TrendFor(diff) ==
    IF Abs(diff) < 2000 THEN [dir |-> "stable", diff |-> Num(0)]
    ELSE [dir |-> IF diff > 0 THEN "up" ELSE "down", diff |-> Num(Abs(diff))]

\* C13: with diff = current - previous risk, the trend is stable with diff 0
\* exactly when |diff| < 2, otherwise up if diff > 0 and down if diff < 0 with
\* magnitude |diff|; with fewer than two readings the trend is null.
C13_TrendDeadBand ==
    /\ variant = "part_001" =>
          IF Len(feeds) < 2 THEN trend = NoTrend
          ELSE trend = TrendFor(trendScore(feeds[Len(feeds)], offsets).n
                                - trendScore(feeds[Len(feeds) - 1], offsets).n)
    /\ variant = "dashboard-app" =>
          IF Len(feeds) < 2 THEN ui.trend = NoTrend
          ELSE ui.trend # NoTrend =>
                  /\ ui.trend.dir
                        = TrendFor(Number(feeds[Len(feeds)].field7).n
                                   - Number(feeds[Len(feeds) - 1].field7).n).dir
                  /\ Number(ui.trend.diff)
                        = TrendFor(Number(feeds[Len(feeds)].field7).n
                                   - Number(feeds[Len(feeds) - 1].field7).n).diff


\* the stage names the claim gives to the band of a score in [0,100]
StageNames(score) ==
    IF score < 30000 THEN {"Initial Attachment", "Early Growth"}
    ELSE IF score < 60000 THEN {"Irreversible Attachment", "Developing Biofilm"}
    ELSE IF score < 85000 THEN {"Maturation I"}
    ELSE {"Maturation II", "Maturation II / Dispersion", "Critical Biofilm"}

\* C14: every score in [0,100] is mapped to the stage of its band: [0,30)
\* Initial Attachment / Early Growth, [30,60) Irreversible Attachment /
\* Developing Biofilm, [60,85) Maturation I, [85,100] Maturation II / Critical
\* Biofilm.
C14_StageBands ==
    /\ (variant = "part_001" /\ data # NoReading /\ InRange(riskScore))
          => biofilmStage \in StageNames(riskScore.n)
    /\ (variant = "dashboard-app" /\ ui.hasData
        /\ InRange(Number(lastValidData.field7)))
          => ui.stage \in StageNames(Number(lastValidData.field7).n)


C16_Connectivity ==
    (variant = "part_001" /\ lastOp.op = "fetchData") =>
        connectionStatus
            = IF (IsNumeric(data.field8) /\ data.field8.n = 0)
                 \/ now - data.created_at > 60000
              THEN "disconnected" ELSE "connected"


\* the timestamp of the newest reading of a history, -1 when it is empty
Newest(fs) == IF Len(fs) = 0 THEN -1 ELSE fs[Len(fs)].created_at

\* C17: poll cycles never overlap, whatever the fetch latency, so the state
\* shown after a cycle completes is never that of an older request overwriting
\* a newer one.
C17_NoOverlappingCycles ==
    /\ [](Len(inflight) <= 1)
    /\ [][Newest(feeds') >= Newest(feeds)]_vars

\* C20: after unmount no further poll cycle is started and no state of the
\* pipeline is updated, even if a fetch was in flight at unmount.
C20_NothingAfterTeardown ==
    [][~mounted =>
          /\ Len(inflight') <= Len(inflight)
          /\ feeds' = feeds /\ data' = data
          /\ connectionStatus' = connectionStatus
          /\ lastValidData' = lastValidData /\ ui' = ui
          /\ notifications' = notifications
          /\ localStorage' = localStorage]_vars


\* C18: a poll cycle that starts after a calibration offset was changed
\* normalizes its reading with the new offset: the displayed pH, temperature
\* and TDS and the parameter status it produces are those of raw value +
\* current offset.
C18_PollUsesCurrentOffsets ==
    /\ (variant = "dashboard-app" /\ lastOp.op = "fetchData") =>
          /\ ui.ph = toFixed(Add(Number(lastValidData.field1), offsets.ph), 2)
          /\ ui.temp = toFixed(Add(Number(lastValidData.field2), offsets.temp), 1)
          /\ ui.tds = toFixed(Add(Number(lastValidData.field6), offsets.tds), 0)
          /\ ui.paramStatus = paramStatusOf(lastValidData, offsets)
    /\ (variant = "part_001" /\ lastOp.op = "fetchData") =>
          /\ IsNumeric(data.field1)
                => ph = toFixed(Add(Number(data.field1), offsets.ph), 1)
          /\ IsNumeric(data.field2)
                => temp = toFixed(Add(Number(data.field2), offsets.temp), 1)
          /\ IsNumeric(data.field6)
                => tds = toFixed(Add(Number(data.field6), offsets.tds), 1)


\* C19: a failed poll keeps the reading of the last successful poll for risk,
\* DSS and dosage and reports connectivity as disconnected or degraded, never
\* as connected or active; when no poll has succeeded yet it leaves the
\* pipeline outputs in their initial state.
C19_FailedPoll ==
    [][lastOp'.op = "fetchFailed" =>
          /\ data' = data /\ lastValidData' = lastValidData /\ feeds' = feeds
          /\ variant = "part_001" => connectionStatus' = "disconnected"
          /\ variant = "dashboard-app" =>
                IF lastValidData = NoReading THEN ui' = ui
                ELSE /\ ui'.riskPercent = Percent(Number(lastValidData.field7))
                     /\ ui'.dssDecision = runDSS(lastValidData).decision
                     /\ ui'.ph = ui.ph
                     /\ ui'.systemStatus \in {"DATA STALE", "SYSTEM OFFLINE"}]_vars


DssDecisions == {"Normal Operation", "Preventive Maintenance",
                 "Corrective Action Required"}

\* C21: whenever a DSS decision is passed to the dosage calculator it is one
\* of Normal Operation, Preventive Maintenance, Corrective Action Required, and
\* its urgency is one of Low, Medium, High.
C21_DecisionPassedToDosage ==
    /\ (variant = "part_001" /\ ph # Dash) => dssDecision \in DssDecisions
    /\ variant = "dashboard-app" =>
          /\ ui.dssDecision \in DssDecisions
          /\ ui.dssUrgency \in {"Low", "Medium", "High"}


\* C22: after any sequence of edits of the volume field and the offset fields
\* and of 'estimate volume from flow' actions, the tank volume is a number >= 0
\* and every calibration offset is a number; none of them is NaN.
C22_ConfigurationIsNumeric ==
    /\ isNum(waterVolume) /\ waterVolume.n >= 0
    /\ \A key \in {"ph", "temp", "tds"} : isNum(offsets[key])


Severity(decision) ==
    CASE decision = "Normal Operation" -> 0
      [] decision = "Preventive Maintenance" -> 1
      [] decision = "Corrective Action Required" -> 2

\* C23: for a fixed risk score the severity of the runDSS decision never
\* decreases when the factor count increases.
C23_SeverityMonotone ==
    (probe.fn = "runDSSPair" /\ IsNumeric(probe.d1.field7)
     /\ probe.d1.field7 = probe.d2.field7
     /\ Len(probe.out1.factors) < Len(probe.out2.factors))
        => Severity(probe.out1.decision) <= Severity(probe.out2.decision)

\* C24: when the risk field is not a number and at most one factor condition
\* is true, runDSS does not return Corrective Action Required.
C24_MissingRiskIsNotCorrective ==
    (probe.fn = "runDSSPair" /\ isNaN(Number(probe.d1.field7))
     /\ Len(probe.out1.factors) <= 1)
        => probe.out1.decision # "Corrective Action Required"


\* C25: in every state before the first reading has been received and
\* processed (initial state, empty feeds, failed polls only) the treatment
\* list is empty.
C25_NoTreatmentsBeforeData ==
    /\ (variant = "part_001" /\ data = NoReading) => treatments = <<>>
    /\ (variant = "dashboard-app" /\ lastValidData = NoReading)
          => treatmentsDash = <<>>


\* C26: the tank volume round-trips through the settings store: a new
\* session starts with the volume >= 0 that the previous session held,
\* including 0.
C26_VolumeRoundTrip ==
    [][(lastOp'.op = "mount" /\ isNum(waterVolume) /\ waterVolume.n >= 0)
          => waterVolume' = waterVolume]_vars

NeverLogged ==
    lastMaintenance.k # "iso" /\ localStorage.lastMaintenance.k # "iso"

\* C27: while maintenance has never been logged the last-maintenance
\* timestamp is absent in every session, reloads included, and the status
\* is Never; 'Log maintenance' stores the ISO timestamp of the instant.
C27_LastMaintenance ==
    /\ [](NeverLogged => /\ lastMaintenance = Null
                         /\ daysSinceMaintenance.text = "Never")
    /\ [][lastOp'.op = "logMaintenance"
            => /\ lastMaintenance' = toISOString(now)
               /\ localStorage'.lastMaintenance = toISOString(now)]_vars


\* C28: a successful poll whose body has no feeds leaves the history, the
\* latest reading, the last known-good reading, the connectivity status and
\* every derived output unchanged.
C28_EmptyFeedFrame ==
    [][lastOp'.op = "fetchEmpty"
          => UNCHANGED <<feeds, data, lastValidData, connectionStatus, ui,
                         offsets, waterVolume, notifications, localStorage>>]_vars

C28_Witness ==
    /\ lastOp.op = "fetchEmpty"
    /\ feeds # <<>>
    /\ (data # NoReading \/ lastValidData # NoReading)


\* C29: every pulse is counted exactly once: outside the read-and-reset, the
\* sum of the flowRate values published at the window closings plus the
\* current flowPulses equals the number of interrupts handled.
C29_PulsesCountedOnce ==
    fw.pc \notin {"read", "reset", "interrupts"}
        => fw.published + fw.flowPulses = fw.handled

C29_Witness ==
    /\ fw.published > 0
    /\ fw.flowPulses > 0
    /\ fw.handled = MaxPulses
    /\ fw.pc = "push"

\* C30: each 20-second period of uptime contains exactly one push attempt.
C30_OnePushPerPeriod ==
    \A i \in 1..Len(fw.closed) : fw.closed[i] = 1

====
